---- MODULE Spec2Model ----
(***************************************************************************)
(* Folder and Excel Viewer (src/__main__.py).                              *)
(*                                                                         *)
(* A string is a sequence of one-character strings.  A FolderTree (the     *)
(* insertion-ordered dict returned by get_folder_structure) is a sequence  *)
(* of records [name, sub]; a directory listing of the disk is a sequence   *)
(* of entries [name, kind, sub, book] in the order the filesystem yields   *)
(* them.                                                                   *)
(***************************************************************************)
EXTENDS Integers, Sequences, FiniteSets, TLC

VARIABLES
    pc,               \* position of the run
    root_path,        \* the root path handed to the scan / FolderComboBox.root_path
    root_kind,        \* what the filesystem holds at root_path: "missing", "dir", "file"
    disk,             \* the listing of the root directory (nested)
    scan,             \* outcome of the call of get_folder_structure
    folder_structure, \* FolderComboBox.folder_structure
    folder_items,     \* FolderComboBox.combobox["values"]
    gui,              \* GUI objects created so far, in creation order
    selected,         \* FolderComboBox.combobox.get()
    folder_path,      \* ExcelSheetSelector.folder_path
    label,            \* ExcelSheetSelector.excel_file_label text
    sheet_values,     \* ExcelSheetSelector.sheet_combobox["values"]
    sheet_shown,      \* the text shown in ExcelSheetSelector.sheet_combobox
    open_handles,     \* workbooks opened and not closed
    outcome,          \* how the last call of on_folder_selected ended
    fault             \* the collaborator call that failed in the last event

vars == <<pc, root_path, root_kind, disk, scan, folder_structure, folder_items,
          gui, selected, folder_path, label, sheet_values, sheet_shown,
          open_handles, outcome, fault>>

(***************************************************************************)
(* Strings                                                                 *)
(***************************************************************************)
Sep == "/"

None == <<"N", "o", "n", "e">>

startswith(s, prefix) ==
    /\ Len(s) >= Len(prefix)
    /\ SubSeq(s, 1, Len(prefix)) = prefix

endswith(s, suffix) ==
    /\ Len(s) >= Len(suffix)
    /\ SubSeq(s, Len(s) - Len(suffix) + 1, Len(s)) = suffix

RECURSIVE lstrip(_)
lstrip(s) == IF s # <<>> /\ Head(s) = " " THEN lstrip(Tail(s)) ELSE s

RECURSIVE rstrip(_)
rstrip(s) ==
    IF s # <<>> /\ s[Len(s)] = " " THEN rstrip(SubSeq(s, 1, Len(s) - 1)) ELSE s

strip(s) == rstrip(lstrip(s))

\* os.path.join(parent, name), two components
join(parent, name) ==
    IF name # <<>> /\ Head(name) = Sep THEN name
    ELSE IF parent = <<>> \/ parent[Len(parent)] = Sep THEN parent \o name
    ELSE parent \o <<Sep>> \o name

\* the components of a relative path, split at the separator
RECURSIVE split(_, _)
split(s, cur) ==
    IF s = <<>> THEN <<cur>>
    ELSE IF Head(s) = Sep THEN <<cur>> \o split(Tail(s), <<>>)
    ELSE split(Tail(s), Append(cur, Head(s)))

(***************************************************************************)
(* PathFlattener: FolderComboBox.populate_combobox                         *)
(***************************************************************************)
RECURSIVE traverse_structure_post(_, _)
traverse_structure_post(structure, parent_path) ==
    IF structure = <<>> THEN <<>>
    ELSE LET full_path == join(parent_path, Head(structure).name)
         IN  traverse_structure_post(Head(structure).sub, full_path)
                 \o <<full_path>>
                 \o traverse_structure_post(Tail(structure), parent_path)

RECURSIVE traverse_structure_flat(_, _)
traverse_structure_flat(structure, parent_path) ==
    IF structure = <<>> THEN <<>>
    ELSE LET full_path == join(parent_path, Head(structure).name)
         IN  <<full_path>>
                 \o traverse_structure_flat(Head(structure).sub, parent_path)
                 \o traverse_structure_flat(Tail(structure), parent_path)

RECURSIVE traverse_structure(_, _)
traverse_structure(structure, parent_path) ==
    IF structure = <<>> THEN <<>>
    ELSE LET full_path == join(parent_path, Head(structure).name)
         IN  <<full_path>>
                 \o traverse_structure(Head(structure).sub, full_path)
                 \o traverse_structure(Tail(structure), parent_path)

(***************************************************************************)
(* TreeScanner: get_folder_structure                                       *)
(***************************************************************************)
RECURSIVE build_structure_all(_)
build_structure_all(listing) ==
    IF listing = <<>> THEN <<>>
    ELSE <<[name |-> Head(listing).name, sub |-> build_structure_all(Head(listing).sub)]>>
             \o build_structure_all(Tail(listing))

\* listing: what os.scandir(path) yields, in that order
RECURSIVE build_structure(_)
build_structure(listing) ==
    IF listing = <<>> THEN <<>>
    ELSE IF Head(listing).kind = "dir"
         THEN <<[name |-> Head(listing).name, sub |-> build_structure(Head(listing).sub)]>>
                  \o build_structure(Tail(listing))
         ELSE build_structure(Tail(listing))

\* the fixed text of the ValueError message, one element
NotFoundText == "path does not exist: "

get_folder_structure_unchecked(path, kind, listing) ==
    [kind |-> "return", tree |-> build_structure(listing)]

\* kind: what is at path on the filesystem; listing: its entries when a directory
get_folder_structure(path, kind, listing) ==
    IF kind = "missing"
    THEN [kind |-> "raise", exc |-> "ValueError", msg |-> <<NotFoundText>> \o path]
    ELSE IF kind = "file"
         THEN [kind |-> "raise", exc |-> "NotADirectoryError", msg |-> path]
         ELSE [kind |-> "return", tree |-> build_structure(listing)]

(***************************************************************************)
(* The filesystem as the handlers see it                                   *)
(***************************************************************************)
Missing == [kind |-> "missing", sub |-> <<>>, book |-> [readable |-> FALSE, sheetnames |-> <<>>]]

\* the entry reached from a directory listing along path components; empty
\* components (doubled or trailing separators) are skipped
RECURSIVE Walk(_, _)
Walk(node, comps) ==
    IF comps = <<>> THEN node
    ELSE IF Head(comps) = <<>> THEN
        IF node.kind = "dir" THEN Walk(node, Tail(comps)) ELSE Missing
    ELSE IF node.kind # "dir" THEN Missing
    ELSE LET hits == {i \in 1..Len(node.sub) : node.sub[i].name = Head(comps)}
         IN  IF hits = {} THEN Missing
             ELSE Walk(node.sub[CHOOSE i \in hits : TRUE], Tail(comps))

\* what the filesystem holds at a path
Lookup(path) ==
    LET rootNode == [kind |-> root_kind, sub |-> disk, book |-> Missing.book]
    IN  IF path = root_path THEN rootNode
        ELSE IF startswith(path, root_path \o <<Sep>>)
             THEN Walk(rootNode, split(SubSeq(path, Len(root_path) + 2, Len(path)), <<>>))
             ELSE Missing

isdir(path) == Lookup(path).kind = "dir"

\* os.listdir(path): the entry names, in the filesystem's order
listdir(path) == [i \in 1..Len(Lookup(path).sub) |-> Lookup(path).sub[i].name]

(***************************************************************************)
(* SelectionResolver: ExcelSheetSelector                                   *)
(***************************************************************************)
EXT == <<".", "x", "l", "s", "x">>
LOCK == <<"~", "$">>

LabelPrefix ==
    <<"E", "x", "c", "e", "l", " ", "F", "i", "l", "e", ":", " ">>
InitLabel ==
    <<"E", "x", "c", "e", "l", " ", "F", "i", "l", "e", ":">>
Placeholder ==
    LabelPrefix \o
    <<"N", "o", "n", "e", " ", "(", "o", "r", " ", "m", "u", "l", "t", "i",
      "p", "l", "e", " ", "f", "i", "l", "e", "s", ")">>

qualifies_any_xlsx(f) == endswith(f, EXT)

\* the filter of the list comprehension
qualifies(f) == endswith(f, EXT) /\ ~startswith(f, LOCK)

RECURSIVE excel_files(_)
excel_files(names) ==
    IF names = <<>> THEN <<>>
    ELSE IF qualifies(Head(names)) THEN <<Head(names)>> \o excel_files(Tail(names))
    ELSE excel_files(Tail(names))

\* openpyxl.load_workbook(file_path, read_only=True): the workbook, or a failure
\* when the path is no readable workbook file
load_workbook(file_path) ==
    LET e == Lookup(file_path)
    IN  IF e.kind = "file" /\ e.book.readable
        THEN [ok |-> TRUE, sheetnames |-> e.book.sheetnames]
        ELSE [ok |-> FALSE, sheetnames |-> <<>>]

\* The selector's fields, as one record.
Selector ==
    [folder_path |-> folder_path, label |-> label, sheet_values |-> sheet_values,
     sheet_shown |-> sheet_shown, open_handles |-> open_handles,
     outcome |-> outcome, fault |-> fault]

\* ExcelSheetSelector.__init__
NewSelector ==
    [folder_path |-> None, label |-> InitLabel, sheet_values |-> <<>>,
     sheet_shown |-> <<>>, open_handles |-> 0, outcome |-> "none", fault |-> "none"]

Raised(sel, what) == [sel EXCEPT !.outcome = "raised", !.fault = what]
Returned(sel) == [sel EXCEPT !.outcome = "returned", !.fault = "none"]

\* env: the collaborator call that fails in this call, if it is reached:
\* "listdir" (os.listdir raises), "update" (line 117 raises after the open),
\* or "none"
check_and_display_excel_file(sel, env) ==
    IF sel.folder_path = <<>> THEN Returned(sel)
    ELSE IF env = "listdir" THEN Raised(sel, "listdir")
    ELSE
      LET files == excel_files(listdir(sel.folder_path))
      IN  IF Len(files) = 1
          THEN LET excel_file == files[1]
                   labelled == [sel EXCEPT !.label = LabelPrefix \o excel_file]
                   workbook == load_workbook(join(sel.folder_path, excel_file))
               IN  IF ~workbook.ok THEN Raised(labelled, "load_workbook")
                   ELSE IF env = "update"
                        THEN Raised([labelled EXCEPT !.open_handles = @ + 1], "update")
                        ELSE Returned([labelled EXCEPT
                                 !.sheet_values = workbook.sheetnames,
                                 !.sheet_shown = IF workbook.sheetnames # <<>>
                                                 THEN workbook.sheetnames[1]
                                                 ELSE @])
          ELSE Returned([sel EXCEPT !.label = Placeholder,
                                    !.sheet_values = <<>>,
                                    !.sheet_shown = <<>>])

update_folder(sel, path, env) ==
    check_and_display_excel_file([sel EXCEPT !.folder_path = strip(path)], env)

\* MainApp.on_folder_selected with `chosen` shown in the folder combobox
on_folder_selected_handler(sel, chosen, env) ==
    LET selected_folder == strip(chosen)
    IN  IF isdir(selected_folder)
        THEN update_folder(sel, selected_folder, env)
        ELSE Returned(sel)

(***************************************************************************)
(* Input domains                                                           *)
(***************************************************************************)
MaxFolders == 4

FolderNames == {<<"a">>, <<"b">>, <<"a", "a">>}

FlatRoots == {<<>>, <<Sep>>, <<"r">>, <<"r", Sep>>, <<"r", Sep, "a">>}

KeysOf(structure) == {structure[i].name : i \in 1..Len(structure)}

\* the FolderTrees with at most n folders over FolderNames, keys unique per level
RECURSIVE FolderTrees(_)
FolderTrees(n) ==
    IF n = 0 THEN {<<>>}
    ELSE {<<>>} \cup
         UNION {UNION {{<<[name |-> nm, sub |-> s]>> \o rest :
                            rest \in {r \in FolderTrees(n - 1 - k) : nm \notin KeysOf(r)}} :
                        nm \in FolderNames, s \in FolderTrees(k)} :
                k \in 0..(n - 1)}

MaxEntries == 4

NoBook == [readable |-> FALSE, sheetnames |-> <<>>]

Dir(nm) == [name |-> nm, kind |-> "dir", book |-> NoBook]
File(nm, bk) == [name |-> nm, kind |-> "file", book |-> bk]

NamesOf(listing) == {listing[i].name : i \in 1..Len(listing)}

\* the listings with at most n entries in all, built from the entry templates T
\* (a directory's entries count), names unique within a directory, in any order
RECURSIVE Listings(_, _)
Listings(n, T) ==
    IF n = 0 THEN {<<>>}
    ELSE {<<>>} \cup
         UNION {UNION {UNION {{<<[name |-> t.name, kind |-> t.kind, book |-> t.book,
                                  sub |-> s]>> \o rest :
                                  rest \in {r \in Listings(n - 1 - k, T) :
                                                t.name \notin NamesOf(r)}} :
                              s \in IF t.kind = "dir" THEN Listings(k, T) ELSE {<<>>}} :
                       t \in T} :
                k \in 0..(n - 1)}

ScanEntries == {Dir(<<"a">>), Dir(<<"b">>), File(<<"a">>, NoBook), File(<<"f">>, NoBook)}

ScanRoots == {<<"r">>, <<Sep, "r", Sep, "a">>}

MaxAppEntries == 4
MaxLeaks == 1

Book(names) == [readable |-> TRUE, sheetnames |-> names]

AppEntries ==
    {Dir(<<"a">>), Dir(<<"a", " ">>),
     File(<<"b">> \o EXT, NoBook),
     File(<<"b">> \o EXT, Book(<<>>)),
     File(<<"b">> \o EXT, Book(<<<<"S", "1">>, <<"S", "2">>>>)),
     File(<<"c">> \o EXT, Book(<<<<"S", "3">>>>)),
     File(LOCK \o <<"b">> \o EXT, NoBook)}

\* the names of AppEntries in ascending character order
AppNameOrder ==
    <<<<"a">>, <<"a", " ">>, <<"b">> \o EXT, <<"c">> \o EXT, LOCK \o <<"b">> \o EXT>>

NameRank(nm) == CHOOSE i \in 1..Len(AppNameOrder) : AppNameOrder[i] = nm

\* every directory lists its entries in ascending name order
RECURSIVE NameOrdered(_)
NameOrdered(listing) ==
    /\ \A i \in 1..Len(listing), j \in 1..Len(listing) :
           i < j => NameRank(listing[i].name) < NameRank(listing[j].name)
    /\ \A i \in 1..Len(listing) : NameOrdered(listing[i].sub)

\* the disks of the application runs: at most MaxAppEntries entries below the
\* root, listed in name order
AppDisks == {l \in Listings(MaxAppEntries, AppEntries) : NameOrdered(l)}

Envs == {"none", "listdir", "update"}

root_folder ==
    <<"C", ":", "\\", "\\", "w", "o", "r", "k", "\\", "\\", "o", "u", "t",
      "p", "u", "t">>

NoScan == [kind |-> "none"]

Idle ==
    /\ scan = NoScan
    /\ gui = <<>>
    /\ selected = <<>>
    /\ folder_path = None
    /\ label = <<>>
    /\ sheet_values = <<>>
    /\ sheet_shown = <<>>
    /\ open_handles = 0
    /\ outcome = "none"
    /\ fault = "none"

(***************************************************************************)
(* SpecFlat: FolderComboBox.__init__ on any folder structure and root path *)
(***************************************************************************)
InitFlat ==
    /\ pc = "construct"
    /\ root_path \in FlatRoots
    /\ root_kind = "dir"
    /\ disk = <<>>
    /\ folder_structure \in FolderTrees(MaxFolders)
    /\ folder_items = <<>>
    /\ Idle

populate_combobox ==
    /\ pc = "construct"
    /\ folder_items' = traverse_structure(folder_structure, root_path)
    /\ gui' = gui \o <<"FolderComboBox", "FolderComboBox.combobox">>
    /\ pc' = "constructed"
    /\ UNCHANGED <<root_path, root_kind, disk, scan, folder_structure, selected,
                   folder_path, label, sheet_values, sheet_shown, open_handles,
                   outcome, fault>>

NextFlat == populate_combobox

SpecFlat == InitFlat /\ [][NextFlat]_vars

(***************************************************************************)
(* SpecScan: one call of get_folder_structure on any filesystem            *)
(***************************************************************************)
InitScan ==
    /\ pc = "call"
    /\ root_path \in ScanRoots
    /\ root_kind \in {"missing", "dir", "file"}
    /\ disk \in IF root_kind = "dir" THEN Listings(MaxEntries, ScanEntries) ELSE {<<>>}
    /\ folder_structure = <<>>
    /\ folder_items = <<>>
    /\ Idle

scan_call ==
    /\ pc = "call"
    /\ scan' = get_folder_structure(root_path, root_kind, disk)
    /\ pc' = IF scan'.kind = "return" THEN "returned" ELSE "raised"
    /\ folder_structure' = IF scan'.kind = "return" THEN scan'.tree ELSE folder_structure
    /\ UNCHANGED <<root_path, root_kind, disk, folder_items, gui, selected,
                   folder_path, label, sheet_values, sheet_shown, open_handles,
                   outcome, fault>>

NextScan == scan_call

SpecScan == InitScan /\ [][NextScan]_vars

(***************************************************************************)
(* Spec: MainApp, from construction to the event loop                      *)
(***************************************************************************)
Init ==
    /\ pc = "new"
    /\ root_path = root_folder
    /\ root_kind \in {"missing", "dir", "file"}
    /\ disk \in IF root_kind = "dir" THEN AppDisks ELSE {<<>>}
    /\ folder_structure = <<>>
    /\ folder_items = <<>>
    /\ Idle

\* lines 133-135: tk.Tk.__init__, title, geometry
MainApp_init_window ==
    /\ pc = "new"
    /\ gui' = Append(gui, "Tk")
    /\ pc' = "scan"
    /\ UNCHANGED <<root_path, root_kind, disk, scan, folder_structure, folder_items,
                   selected, folder_path, label, sheet_values, sheet_shown,
                   open_handles, outcome, fault>>

MainApp_init_scan_swallowed ==
    /\ pc = "scan"
    /\ scan' = get_folder_structure(root_path, root_kind, disk)
    /\ pc' = "widgets"
    /\ folder_structure' = IF scan'.kind = "return" THEN scan'.tree ELSE <<>>
    /\ UNCHANGED <<root_path, root_kind, disk, folder_items, gui, selected,
                   folder_path, label, sheet_values, sheet_shown, open_handles,
                   outcome, fault>>

\* lines 138-139: the scan of the root folder; an exception ends the construction
MainApp_init_scan ==
    /\ pc = "scan"
    /\ scan' = get_folder_structure(root_path, root_kind, disk)
    /\ pc' = IF scan'.kind = "return" THEN "widgets" ELSE "aborted"
    /\ folder_structure' = IF scan'.kind = "return" THEN scan'.tree ELSE folder_structure
    /\ UNCHANGED <<root_path, root_kind, disk, folder_items, gui, selected,
                   folder_path, label, sheet_values, sheet_shown, open_handles,
                   outcome, fault>>

\* lines 142-160: the frames, the FolderComboBox (populated), the
\* ExcelSheetSelector, and the binding of the selection event
MainApp_init_widgets ==
    /\ pc = "widgets"
    /\ folder_items' = traverse_structure(folder_structure, root_path)
    /\ gui' = gui \o <<"folder_frame", "FolderComboBox", "FolderComboBox.combobox",
                       "excel_frame", "ExcelSheetSelector", "excel_file_label",
                       "sheet_combobox">>
    /\ folder_path' = NewSelector.folder_path
    /\ label' = NewSelector.label
    /\ sheet_values' = NewSelector.sheet_values
    /\ sheet_shown' = NewSelector.sheet_shown
    /\ pc' = "mainloop"
    /\ UNCHANGED <<root_path, root_kind, disk, scan, folder_structure, selected,
                   open_handles, outcome, fault>>

\* <<ComboboxSelected>>: the user picks an entry of the folder combobox
on_folder_selected ==
    /\ pc = "mainloop"
    /\ open_handles < MaxLeaks
    /\ \E i \in 1..Len(folder_items), env \in Envs :
          LET after == on_folder_selected_handler(Selector, folder_items[i], env)
          IN  /\ selected' = folder_items[i]
              /\ folder_path' = after.folder_path
              /\ label' = after.label
              /\ sheet_values' = after.sheet_values
              /\ sheet_shown' = after.sheet_shown
              /\ open_handles' = after.open_handles
              /\ outcome' = after.outcome
              /\ fault' = after.fault
    /\ UNCHANGED <<pc, root_path, root_kind, disk, scan, folder_structure,
                   folder_items, gui>>

Next ==
    \/ MainApp_init_window
    \/ MainApp_init_scan
    \/ MainApp_init_widgets
    \/ on_folder_selected

Spec == Init /\ [][Next]_vars

(***************************************************************************)
(* Folders of a FolderTree, named by their key paths                       *)
(***************************************************************************)
RECURSIVE NodePaths(_)
NodePaths(structure) ==
    UNION {{<<structure[i].name>>} \cup
           {<<structure[i].name>> \o p : p \in NodePaths(structure[i].sub)} :
           i \in 1..Len(structure)}

\* the full path of the folder at key path kp: root joined with each key in turn
RECURSIVE PathOf(_, _)
PathOf(root, kp) ==
    IF kp = <<>> THEN root ELSE PathOf(join(root, Head(kp)), Tail(kp))

\* the mapping found at key path kp
RECURSIVE SubAt(_, _)
SubAt(structure, kp) ==
    IF kp = <<>> THEN structure
    ELSE LET i == CHOOSE j \in 1..Len(structure) : structure[j].name = Head(kp)
         IN  SubAt(structure[i].sub, Tail(kp))

KeyPos(structure, nm) == CHOOSE j \in 1..Len(structure) : structure[j].name = nm

IsProperPrefix(a, b) == Len(a) < Len(b) /\ SubSeq(b, 1, Len(a)) = a
IsPrefix(a, b) == Len(a) <= Len(b) /\ SubSeq(b, 1, Len(a)) = a

Parent(kp) == SubSeq(kp, 1, Len(kp) - 1)
Last(s) == s[Len(s)]

IndexesOf(items, p) == {i \in 1..Len(items) : items[i] = p}

\* every occurrence of p is before every occurrence of q, and both occur
Before(items, p, q) ==
    /\ IndexesOf(items, p) # {}
    /\ IndexesOf(items, q) # {}
    /\ \A i \in IndexesOf(items, p), j \in IndexesOf(items, q) : i < j

\* s1 is enumerated before its sibling s2 in the source mapping
SiblingBefore(structure, s1, s2) ==
    /\ Len(s1) = Len(s2)
    /\ Parent(s1) = Parent(s2)
    /\ KeyPos(SubAt(structure, Parent(s1)), Last(s1))
           < KeyPos(SubAt(structure, Parent(s2)), Last(s2))

\* C1: the flattened list is a depth-first pre-order: a folder's path is at a
\* lower index than the path of each of its descendants, and for siblings s1
\* before s2 in the mapping, the paths of s1 and of all its descendants are at
\* lower indexes than the path of s2.
C1_PreOrder ==
    pc = "constructed" =>
        LET N == NodePaths(folder_structure)
        IN  /\ \A n \in N, d \in N :
                  IsProperPrefix(n, d) =>
                      Before(folder_items, PathOf(root_path, n), PathOf(root_path, d))
            /\ \A s1 \in N, s2 \in N :
                  SiblingBefore(folder_structure, s1, s2) =>
                      \A m \in N :
                          IsPrefix(s1, m) =>
                              Before(folder_items, PathOf(root_path, m),
                                     PathOf(root_path, s2))

\* a flattened tree where a folder with a child is followed by a sibling that
\* has a child of its own
C1_Witness ==
    /\ pc = "constructed"
    /\ Len(folder_structure) = 2
    /\ folder_structure[1].sub # <<>>
    /\ folder_structure[2].sub # <<>>
    /\ Len(folder_items) = 4

\* C2: the flattened list has exactly one entry per folder of the tree, root
\* excluded: its length is the number of folders, no path occurs twice, and
\* the root path is not an entry.
C2_OneEntryPerFolder ==
    pc = "constructed" =>
        LET N == NodePaths(folder_structure)
        IN  /\ Len(folder_items) = Cardinality(N)
            /\ \A n \in N : Cardinality(IndexesOf(folder_items, PathOf(root_path, n))) = 1
            /\ \A i \in 1..Len(folder_items), j \in 1..Len(folder_items) :
                   folder_items[i] = folder_items[j] => i = j
            /\ \A i \in 1..Len(folder_items) : folder_items[i] # root_path

\* a flattened tree where the same folder name occurs at two depths and in two
\* branches
C2_Witness ==
    /\ pc = "constructed"
    /\ Len(folder_items) = 4
    /\ Len(folder_structure) = 2
    /\ \E nm \in FolderNames :
          /\ folder_structure[1].name = nm
          /\ folder_structure[1].sub # <<>>
          /\ folder_structure[1].sub[1].name = nm
          /\ folder_structure[2].sub # <<>>
          /\ folder_structure[2].sub[1].name = nm

\* the key paths of the directories of a listing that are reached through
\* directories only
RECURSIVE DirPaths(_)
DirPaths(listing) ==
    UNION {IF listing[i].kind = "dir"
           THEN {<<listing[i].name>>} \cup
                {<<listing[i].name>> \o p : p \in DirPaths(listing[i].sub)}
           ELSE {} :
           i \in 1..Len(listing)}

\* the entries of the directory at key path kp
RECURSIVE ListingAt(_, _)
ListingAt(listing, kp) ==
    IF kp = <<>> THEN listing
    ELSE LET i == CHOOSE j \in 1..Len(listing) : listing[j].name = Head(kp)
         IN  ListingAt(listing[i].sub, Tail(kp))

DirNamesIn(listing) == {listing[i].name : i \in {j \in 1..Len(listing) : listing[j].kind = "dir"}}

\* C3: for an existing root directory, get_folder_structure returns a nested
\* mapping with a key for exactly each directory entry at each level and none
\* for a regular file; each value is the mapping of that directory, a directory
\* without subdirectories maps to the empty mapping, and so does such a root.
C3_ScanDirectoriesOnly ==
    (pc # "call" /\ root_kind = "dir") =>
        /\ pc = "returned"
        /\ scan.kind = "return"
        /\ NodePaths(scan.tree) = DirPaths(disk)
        /\ \A kp \in DirPaths(disk) \cup {<<>>} :
               LET m == SubAt(scan.tree, kp)
                   l == ListingAt(disk, kp)
               IN  /\ KeysOf(m) = DirNamesIn(l)
                   /\ Len(m) = Cardinality(DirNamesIn(l))
                   /\ (DirNamesIn(l) = {} => m = <<>>)

\* a scan of a root that holds a regular file and a directory which itself
\* holds a regular file and a directory
C3_Witness ==
    /\ pc = "returned"
    /\ \E i \in 1..Len(disk), j \in 1..Len(disk) :
          /\ disk[i].kind = "file"
          /\ disk[j].kind = "dir"
          /\ \E k \in 1..Len(disk[j].sub), l \in 1..Len(disk[j].sub) :
                /\ disk[j].sub[k].kind = "file"
                /\ disk[j].sub[l].kind = "dir"
    /\ Len(scan.tree) = 1
    /\ Len(scan.tree[1].sub) = 1

\* C4: when the root path does not exist, the scan fails with the not-found
\* error (ValueError) whose message carries exactly that root path, and no
\* tree is returned.
C4_MissingRootRaises ==
    (pc # "call" /\ root_kind = "missing") =>
        /\ pc = "raised"
        /\ scan.kind = "raise"
        /\ scan.exc = "ValueError"
        /\ scan.msg = <<NotFoundText>> \o root_path
        /\ "tree" \notin DOMAIN scan
        /\ folder_structure = <<>>

\* a scan of a missing root has ended
C4_Witness ==
    /\ pc = "raised"
    /\ root_kind = "missing"
    /\ scan.kind = "raise"

(***************************************************************************)
(* The selection handler                                                   *)
(***************************************************************************)
\* a name that ends with ".xlsx" and does not start with "~$"
IsQualifyingName(f) ==
    /\ Len(f) >= 5
    /\ <<f[Len(f) - 4], f[Len(f) - 3], f[Len(f) - 2], f[Len(f) - 1], f[Len(f)]>>
           = <<".", "x", "l", "s", "x">>
    /\ ~(Len(f) >= 2 /\ f[1] = "~" /\ f[2] = "$")

\* the entries of the folder the last event resolved
ResolvedFolder == Lookup(strip(selected)).sub

QualifyingIn(listing) == {i \in 1..Len(listing) : IsQualifyingName(listing[i].name)}

\* the last selection event resolved a folder and no collaborator call failed
ResolvedNormally ==
    /\ pc = "mainloop"
    /\ outcome = "returned"
    /\ fault = "none"
    /\ isdir(strip(selected))

\* C5: for the selected folder, with every collaborator call succeeding: when
\* exactly one entry name ends with the spreadsheet extension and does not
\* start with the lock-file marker, the sheet list shown is that file's sheet
\* names in the file's order (and the label names the file); when none or at
\* least two do, the label is the placeholder and the sheet list and the shown
\* value are empty.
C5_OneQualifyingFile ==
    ResolvedNormally =>
        LET Q == QualifyingIn(ResolvedFolder)
        IN  IF Cardinality(Q) = 1
            THEN LET e == ResolvedFolder[CHOOSE i \in Q : TRUE]
                 IN  /\ sheet_values = e.book.sheetnames
                     /\ label = LabelPrefix \o e.name
            ELSE /\ label = Placeholder
                 /\ sheet_values = <<>>
                 /\ sheet_shown = <<>>

\* a folder with one workbook and its lock file beside it has been resolved
\* and shows the workbook's two sheets
C5_Witness ==
    /\ ResolvedNormally
    /\ Cardinality(QualifyingIn(ResolvedFolder)) = 1
    /\ Len(ResolvedFolder) = 2
    /\ \E i \in 1..2 : startswith(ResolvedFolder[i].name, LOCK)
    /\ sheet_values = <<<<"S", "1">>, <<"S", "2">>>>

\* C6: a failure during the resolution (the folder cannot be listed, the one
\* qualifying file cannot be opened or read) does not leave the handler as an
\* exception: the handler returns and shows the "no selection" state.
C6_FailuresAbsorbed ==
    fault # "none" =>
        /\ outcome = "returned"
        /\ label = Placeholder
        /\ sheet_values = <<>>
        /\ sheet_shown = <<>>

\* C7: after any sequence of folder selections no workbook handle is left
\* open, whichever way each call ended.
C7_NoHandleLeftOpen == open_handles = 0

\* C8 as stated: the scan of the root has finished (with a tree or with the
\* error) before the first window or widget is created.
C8_ScanBeforeAnyGui == gui # <<>> => scan # NoScan

\* C8 as amended: the main window (tk.Tk) is created first; the scan has
\* returned a tree before any frame or widget inside the window is created,
\* and when the scan fails the construction ends with the main window alone.
C8_ScanBeforeWidgets ==
    /\ (\E i \in 1..Len(gui) : gui[i] # "Tk") => scan.kind = "return"
    /\ scan.kind = "raise" => (pc = "aborted" /\ gui = <<"Tk">>)

\* the startup with a missing root has ended with the not-found error
C8_Witness ==
    /\ pc = "aborted"
    /\ root_kind = "missing"
    /\ scan.kind = "raise"
    /\ scan.exc = "ValueError"
    /\ gui = <<"Tk">>

\* C9: what is displayed after a selection event depends only on the folder
\* selected in that event and on the disk, whatever was selected before: when
\* the event resolves the folder and every collaborator call succeeds, the
\* label, the sheet list and the shown sheet are those the same event displays
\* on a selector with no earlier selections.
C9_IndependentOfHistory ==
    ResolvedNormally =>
        LET fresh == on_folder_selected_handler(NewSelector, selected, "none")
        IN  <<label, sheet_values, sheet_shown>>
                = <<fresh.label, fresh.sheet_values, fresh.sheet_shown>>

\* C10: the shown sheet is empty or a member of the current sheet list, and
\* after a selection that found exactly one qualifying file with a non-empty
\* sheet list it is that file's first sheet name.
C10_ShownSheetInList ==
    /\ \/ sheet_shown = <<>>
       \/ \E i \in 1..Len(sheet_values) : sheet_values[i] = sheet_shown
    /\ ResolvedNormally =>
          LET Q == QualifyingIn(ResolvedFolder)
          IN  (Cardinality(Q) = 1 /\ ResolvedFolder[CHOOSE i \in Q : TRUE].book.sheetnames # <<>>)
                  => sheet_shown = ResolvedFolder[CHOOSE i \in Q : TRUE].book.sheetnames[1]

====
